---- MODULE Spec2Model ----
(***************************************************************************)
(* Model of lib_init.c: the two static library tables lj_lib_load and      *)
(* lj_lib_preload, as selected by the preprocessor, and luaL_openlibs,     *)
(* stepped statement by statement over the Lua stack, the globals and the  *)
(* registry slot "_PRELOAD".                                               *)
(***************************************************************************)
EXTENDS Integers, Sequences, FiniteSets, TLC

\* Largest number of results an entry point leaves on the stack.
MaxResults == 1

\* ------------------------------------------------------------------ names
NULL == "NULL"

LUA_LOADLIBNAME == "package"
LUA_TABLIBNAME  == "table"
LUA_IOLIBNAME   == "io"
LUA_OSLIBNAME   == "os"
LUA_STRLIBNAME  == "string"
LUA_MATHLIBNAME == "math"
LUA_DBLIBNAME   == "debug"
LUA_BITLIBNAME  == "bit"
LUA_JITLIBNAME  == "jit"
LUA_FFILIBNAME  == "ffi"

\* The preprocessor symbols lib_init.c tests with #ifndef.
Switches ==
  { "WB_DISABLE_LIB_BASE", "WB_DISABLE_LIB_PACKAGE", "WB_DISABLE_LIB_TABLE",
    "WB_DISABLE_LIB_IO", "WB_DISABLE_LIB_OS", "WB_DISABLE_LIB_STRING",
    "WB_DISABLE_LIB_MATH", "WB_DISABLE_LIB_DEBUG", "WB_DISABLE_LIB_BIT",
    "WB_DISABLE_LIB_JIT" }

\* A build configuration: the switches that are defined, and LJ_HASFFI.
Configs == [defined : SUBSET Switches, LJ_HASFFI : BOOLEAN]

\* One luaL_Reg element.
Reg(n, f) == [name |-> n, func |-> f]

\* One #ifndef block of a table: the element is there unless sw is defined.
IfNDef(c, sw, r) == IF sw \notin c.defined THEN <<r>> ELSE <<>>

\* A variant of lj_lib_load in which the package element precedes the base one.
lj_lib_load_pkgfirst(c) ==
     IfNDef(c, "WB_DISABLE_LIB_PACKAGE", Reg(LUA_LOADLIBNAME, "luaopen_package"))
  \o IfNDef(c, "WB_DISABLE_LIB_BASE",    Reg("",              "luaopen_base"))
  \o IfNDef(c, "WB_DISABLE_LIB_TABLE",   Reg(LUA_TABLIBNAME,  "luaopen_table"))
  \o IfNDef(c, "WB_DISABLE_LIB_IO",      Reg(LUA_IOLIBNAME,   "luaopen_io"))
  \o IfNDef(c, "WB_DISABLE_LIB_OS",      Reg(LUA_OSLIBNAME,   "luaopen_os"))
  \o IfNDef(c, "WB_DISABLE_LIB_STRING",  Reg(LUA_STRLIBNAME,  "luaopen_string"))
  \o IfNDef(c, "WB_DISABLE_LIB_MATH",    Reg(LUA_MATHLIBNAME, "luaopen_math"))
  \o IfNDef(c, "WB_DISABLE_LIB_DEBUG",   Reg(LUA_DBLIBNAME,   "luaopen_debug"))
  \o IfNDef(c, "WB_DISABLE_LIB_BIT",     Reg(LUA_BITLIBNAME,  "luaopen_bit"))
  \o IfNDef(c, "WB_DISABLE_LIB_JIT",     Reg(LUA_JITLIBNAME,  "luaopen_jit"))
  \o << Reg(NULL, NULL) >>

\* A variant of lj_lib_load in which the io element is guarded by the os switch.
lj_lib_load_ioguard(c) ==
     IfNDef(c, "WB_DISABLE_LIB_BASE",    Reg("",              "luaopen_base"))
  \o IfNDef(c, "WB_DISABLE_LIB_PACKAGE", Reg(LUA_LOADLIBNAME, "luaopen_package"))
  \o IfNDef(c, "WB_DISABLE_LIB_TABLE",   Reg(LUA_TABLIBNAME,  "luaopen_table"))
  \o IfNDef(c, "WB_DISABLE_LIB_OS",      Reg(LUA_IOLIBNAME,   "luaopen_io"))
  \o IfNDef(c, "WB_DISABLE_LIB_OS",      Reg(LUA_OSLIBNAME,   "luaopen_os"))
  \o IfNDef(c, "WB_DISABLE_LIB_STRING",  Reg(LUA_STRLIBNAME,  "luaopen_string"))
  \o IfNDef(c, "WB_DISABLE_LIB_MATH",    Reg(LUA_MATHLIBNAME, "luaopen_math"))
  \o IfNDef(c, "WB_DISABLE_LIB_DEBUG",   Reg(LUA_DBLIBNAME,   "luaopen_debug"))
  \o IfNDef(c, "WB_DISABLE_LIB_BIT",     Reg(LUA_BITLIBNAME,  "luaopen_bit"))
  \o IfNDef(c, "WB_DISABLE_LIB_JIT",     Reg(LUA_JITLIBNAME,  "luaopen_jit"))
  \o << Reg(NULL, NULL) >>

\* static const luaL_Reg lj_lib_load[], sentinel included.
lj_lib_load(c) ==
     IfNDef(c, "WB_DISABLE_LIB_BASE",    Reg("",              "luaopen_base"))
  \o IfNDef(c, "WB_DISABLE_LIB_PACKAGE", Reg(LUA_LOADLIBNAME, "luaopen_package"))
  \o IfNDef(c, "WB_DISABLE_LIB_TABLE",   Reg(LUA_TABLIBNAME,  "luaopen_table"))
  \o IfNDef(c, "WB_DISABLE_LIB_IO",      Reg(LUA_IOLIBNAME,   "luaopen_io"))
  \o IfNDef(c, "WB_DISABLE_LIB_OS",      Reg(LUA_OSLIBNAME,   "luaopen_os"))
  \o IfNDef(c, "WB_DISABLE_LIB_STRING",  Reg(LUA_STRLIBNAME,  "luaopen_string"))
  \o IfNDef(c, "WB_DISABLE_LIB_MATH",    Reg(LUA_MATHLIBNAME, "luaopen_math"))
  \o IfNDef(c, "WB_DISABLE_LIB_DEBUG",   Reg(LUA_DBLIBNAME,   "luaopen_debug"))
  \o IfNDef(c, "WB_DISABLE_LIB_BIT",     Reg(LUA_BITLIBNAME,  "luaopen_bit"))
  \o IfNDef(c, "WB_DISABLE_LIB_JIT",     Reg(LUA_JITLIBNAME,  "luaopen_jit"))
  \o << Reg(NULL, NULL) >>

\* A variant of lj_lib_preload that lists the jit library as well.
lj_lib_preload_jit(c) ==
     (IF c.LJ_HASFFI THEN << Reg(LUA_FFILIBNAME, "luaopen_ffi") >> ELSE <<>>)
  \o << Reg(LUA_JITLIBNAME, "luaopen_jit") >>
  \o << Reg(NULL, NULL) >>

\* static const luaL_Reg lj_lib_preload[], sentinel included.
lj_lib_preload(c) ==
     (IF c.LJ_HASFFI THEN << Reg(LUA_FFILIBNAME, "luaopen_ffi") >> ELSE <<>>)
  \o << Reg(NULL, NULL) >>

\* The elements of a table before its sentinel: what a `lib->func` loop visits.
Entries(t) ==
  LET stop == CHOOSE i \in 1..Len(t) :
                /\ t[i].func = NULL
                /\ \A j \in 1..(i - 1) : t[j].func # NULL
  IN  SubSeq(t, 1, stop - 1)

Range(s) == { s[k] : k \in 1..Len(s) }
Names(t) == { r.name : r \in Range(Entries(t)) }
EagerSet(c) == Entries(lj_lib_load(c))
LazySet(c)  == Entries(lj_lib_preload(c))

\* ------------------------------------------------------------ Lua values
CFunc(f) == [tag |-> "cfunction", s |-> f, n |-> 0]
Str(x)   == [tag |-> "string",    s |-> x, n |-> 0]
Tab(id)  == [tag |-> "table",     s |-> "", n |-> id]
HostVal  == [tag |-> "userdata",  s |-> "host", n |-> 0]
Nil      == [tag |-> "nil",       s |-> "", n |-> 0]

EmptyEnt == [k \in {} |-> CFunc(NULL)]
NoTable  == [exists |-> FALSE, id |-> 0, hint |-> 0, ent |-> EmptyEnt]

\* The states of L a host hands to luaL_openlibs: a freshly created one, and
\* one whose host already keeps a value on the stack and loaders in _PRELOAD.
HostStates ==
  { [stack |-> <<>>, preload |-> NoTable],
    [stack |-> <<HostVal>>,
     preload |-> [exists |-> TRUE, id |-> 1, hint |-> 0,
                  ent |-> [k \in {"host.unit", LUA_FFILIBNAME} |-> CFunc("host_loader")]]] }

\* ------------------------------------------------------------ Lua C API
lua_pushcfunction(st, f) == Append(st, CFunc(f))
lua_pushstring(st, x)    == Append(st, Str(x))
lua_pop(st, k)           == SubSeq(st, 1, Len(st) - k)

\* lua_call(L, nargs, nresults) once the callee has returned rets: the function
\* and its arguments are removed and the results adjusted to nresults (extra
\* ones dropped, missing ones filled with nil).
lua_call(st, nargs, nresults, rets) ==
  SubSeq(st, 1, Len(st) - nargs - 1)
    \o [k \in 1..nresults |-> IF k <= Len(rets) THEN rets[k] ELSE Nil]

\* luaL_findtable on the registry: the existing table, or a new one of that size.
luaL_findtable(t, szhint) ==
  IF t.exists THEN t
  ELSE [exists |-> TRUE, id |-> t.id + 1, hint |-> szhint, ent |-> EmptyEnt]

\* lua_setfield(L, idx, k) on a table: t[k] = v.
lua_setfield(t, k, v) ==
  [t EXCEPT !.ent = [x \in (DOMAIN t.ent) \cup {k} |-> IF x = k THEN v ELSE t.ent[x]]]

\* What an entry point called with `name` installs in the globals.
Install(g, name) == g \cup { IF name = "" THEN "_G" ELSE name }

VARIABLES
  cfg,      \* the build configuration the tables were compiled under
  pc,       \* position in luaL_openlibs
  lib,      \* const luaL_Reg *lib, as an index into the table being walked
  stack,    \* the Lua stack of L
  globals,  \* names bound in the globals of L
  preload,  \* the registry slot "_PRELOAD"
  calls,    \* the lua_call invocations of the current luaL_openlibs call
  nret,     \* how many of them have returned
  written,  \* the lua_setfield stores of the current luaL_openlibs call
  entry,    \* stack, globals and _PRELOAD when the current call was entered
  atlazy,   \* _PRELOAD when the current call reached luaL_findtable
  recall,   \* the current call follows a completed call on the same L
  err       \* what was raised out of luaL_openlibs, if anything

vars == <<cfg, pc, lib, stack, globals, preload, calls, nret, written, entry,
          atlazy, recall, err>>

Top(st)    == st[Len(st)]
Second(st) == st[Len(st) - 1]

Init ==
  /\ cfg \in Configs
  /\ \E h \in HostStates :
       /\ stack = h.stack
       /\ preload = h.preload
       /\ entry = [stack |-> h.stack, preload |-> h.preload, globals |-> {}]
       /\ atlazy = h.preload
  /\ pc = "idle"
  /\ lib = 1
  /\ globals = {}
  /\ calls = <<>>
  /\ nret = 0
  /\ written = <<>>
  /\ recall = FALSE
  /\ err = "none"

\* The host calls luaL_openlibs(L); lib = lj_lib_load.
Call ==
  /\ pc \in {"idle", "done"}
  /\ pc' = "loop"
  /\ lib' = 1
  /\ calls' = <<>>
  /\ nret' = 0
  /\ written' = <<>>
  /\ entry' = [stack |-> stack, preload |-> preload, globals |-> globals]
  /\ recall' = (pc = "done")
  /\ UNCHANGED <<cfg, stack, globals, preload, atlazy, err>>

\* for (...; lib->func; ...) holds: lua_pushcfunction(L, lib->func).
LoadPushFunc ==
  /\ pc = "loop"
  /\ lj_lib_load(cfg)[lib].func # NULL
  /\ stack' = lua_pushcfunction(stack, lj_lib_load(cfg)[lib].func)
  /\ pc' = "pushed_f"
  /\ UNCHANGED <<cfg, lib, globals, preload, calls, nret, written, entry, atlazy, recall, err>>

\* A variant of LoadPushName that pushes the name of the first element.
LoadPushName_first ==
  /\ pc = "pushed_f"
  /\ stack' = lua_pushstring(stack, lj_lib_load(cfg)[1].name)
  /\ pc' = "pushed_s"
  /\ UNCHANGED <<cfg, lib, globals, preload, calls, nret, written, entry, atlazy, recall, err>>

\* lua_pushstring(L, lib->name).
LoadPushName ==
  /\ pc = "pushed_f"
  /\ stack' = lua_pushstring(stack, lj_lib_load(cfg)[lib].name)
  /\ pc' = "pushed_s"
  /\ UNCHANGED <<cfg, lib, globals, preload, calls, nret, written, entry, atlazy, recall, err>>

\* lua_call(L, 1, 0) enters the function below the one argument on the stack.
LoadCallEnter ==
  /\ pc = "pushed_s"
  /\ calls' = Append(calls, [func |-> Second(stack).s, arg |-> Top(stack).s,
                             nargs |-> 1, nresults |-> 0])
  /\ pc' = "in_call"
  /\ UNCHANGED <<cfg, lib, stack, globals, preload, nret, written, entry, atlazy, recall, err>>

\* A variant of LoadCallReturn that keeps one result: lua_call(L, 1, 1).
LoadCallReturn_keep ==
  /\ pc = "in_call"
  /\ \E nres \in 0..MaxResults :
       stack' = lua_call(stack, 1, 1, [k \in 1..nres |-> Tab(0)])
  /\ globals' = Install(globals, Top(stack).s)
  /\ nret' = nret + 1
  /\ lib' = lib + 1
  /\ pc' = "loop"
  /\ UNCHANGED <<cfg, preload, calls, written, entry, atlazy, recall, err>>

\* The entry point returns with its results; lua_call(L, 1, 0) drops them; lib++.
LoadCallReturn ==
  /\ pc = "in_call"
  /\ \E nres \in 0..MaxResults :
       stack' = lua_call(stack, 1, 0, [k \in 1..nres |-> Tab(0)])
  /\ globals' = Install(globals, Top(stack).s)
  /\ nret' = nret + 1
  /\ lib' = lib + 1
  /\ pc' = "loop"
  /\ UNCHANGED <<cfg, preload, calls, written, entry, atlazy, recall, err>>

\* A variant of LoadCallRaise that undoes the earlier modules' bindings.
LoadCallRaise_rollback ==
  /\ pc = "in_call"
  /\ globals' = entry.globals
  /\ err' = "module"
  /\ pc' = "raised"
  /\ UNCHANGED <<cfg, lib, stack, preload, calls, nret, written, entry, atlazy, recall>>

\* The entry point raises: lua_call does not return and luaL_openlibs, which
\* has no handler, is left through the error. The failing entry point may or
\* may not have bound its own name before it raised.
LoadCallRaise ==
  /\ pc = "in_call"
  /\ globals' \in {globals, Install(globals, Top(stack).s)}
  /\ err' = "module"
  /\ pc' = "raised"
  /\ UNCHANGED <<cfg, lib, stack, preload, calls, nret, written, entry, atlazy, recall>>

\* A variant of FindPreload that installs a new table instead of looking one up.
FindPreload_new ==
  /\ pc = "loop"
  /\ lj_lib_load(cfg)[lib].func = NULL
  /\ atlazy' = preload
  /\ preload' = luaL_findtable([preload EXCEPT !.exists = FALSE],
                               Len(lj_lib_preload(cfg)) - 1)
  /\ stack' = Append(stack, Tab(preload'.id))
  /\ lib' = 1
  /\ pc' = "ploop"
  /\ UNCHANGED <<cfg, globals, calls, nret, written, entry, recall, err>>

\* The eager loop ends at the sentinel; luaL_findtable(L, LUA_REGISTRYINDEX,
\* "_PRELOAD", sizeof(lj_lib_preload)/sizeof(lj_lib_preload[0])-1) pushes the
\* table; lib = lj_lib_preload.
FindPreload ==
  /\ pc = "loop"
  /\ lj_lib_load(cfg)[lib].func = NULL
  /\ atlazy' = preload
  /\ preload' = luaL_findtable(preload, Len(lj_lib_preload(cfg)) - 1)
  /\ stack' = Append(stack, Tab(preload'.id))
  /\ lib' = 1
  /\ pc' = "ploop"
  /\ UNCHANGED <<cfg, globals, calls, nret, written, entry, recall, err>>

\* luaL_findtable has to create the table and the allocation fails.
FindPreloadRaise ==
  /\ pc = "loop"
  /\ lj_lib_load(cfg)[lib].func = NULL
  /\ ~preload.exists
  /\ err' = "preload"
  /\ pc' = "raised"
  /\ UNCHANGED <<cfg, lib, stack, globals, preload, calls, nret, written, entry, atlazy, recall>>

\* for (...; lib->func; ...) holds: lua_pushcfunction(L, lib->func).
PreloadPushFunc ==
  /\ pc = "ploop"
  /\ lj_lib_preload(cfg)[lib].func # NULL
  /\ stack' = lua_pushcfunction(stack, lj_lib_preload(cfg)[lib].func)
  /\ pc' = "ppushed"
  /\ UNCHANGED <<cfg, lib, globals, preload, calls, nret, written, entry, atlazy, recall, err>>

\* A variant of PreloadSetField that pops the function without storing it.
PreloadSetField_nostore ==
  /\ pc = "ppushed"
  /\ stack' = lua_pop(stack, 1)
  /\ lib' = lib + 1
  /\ pc' = "ploop"
  /\ UNCHANGED <<cfg, globals, preload, calls, nret, written, entry, atlazy, recall, err>>

\* A variant of PreloadSetField that stores under the function's own name.
PreloadSetField_key ==
  /\ pc = "ppushed"
  /\ preload' = lua_setfield(preload, Top(stack).s, Top(stack))
  /\ written' = Append(written, [key |-> Top(stack).s, val |-> Top(stack)])
  /\ stack' = lua_pop(stack, 1)
  /\ lib' = lib + 1
  /\ pc' = "ploop"
  /\ UNCHANGED <<cfg, globals, calls, nret, entry, atlazy, recall, err>>

\* A variant of PreloadSetField that runs the entry point before storing it.
PreloadSetField_call ==
  /\ pc = "ppushed"
  /\ calls' = Append(calls, [func |-> Top(stack).s, arg |-> lj_lib_preload(cfg)[lib].name,
                             nargs |-> 1, nresults |-> 0])
  /\ preload' = lua_setfield(preload, lj_lib_preload(cfg)[lib].name, Top(stack))
  /\ written' = Append(written, [key |-> lj_lib_preload(cfg)[lib].name, val |-> Top(stack)])
  /\ stack' = lua_pop(stack, 1)
  /\ lib' = lib + 1
  /\ pc' = "ploop"
  /\ UNCHANGED <<cfg, globals, nret, entry, atlazy, recall, err>>

\* lua_setfield(L, -2, lib->name): t[name] = v for the table t at index -2 and
\* the value v on top, which is popped; lib++. Indexing a value that is not the
\* table raises.
PreloadSetField ==
  /\ pc = "ppushed"
  /\ IF Second(stack) = Tab(preload.id)
       THEN /\ preload' = lua_setfield(preload, lj_lib_preload(cfg)[lib].name, Top(stack))
            /\ written' = Append(written, [key |-> lj_lib_preload(cfg)[lib].name,
                                           val |-> Top(stack)])
            /\ stack' = lua_pop(stack, 1)
            /\ lib' = lib + 1
            /\ pc' = "ploop"
            /\ err' = err
       ELSE /\ err' = "index"
            /\ pc' = "raised"
            /\ UNCHANGED <<preload, written, stack, lib>>
  /\ UNCHANGED <<cfg, globals, calls, nret, entry, atlazy, recall>>

\* The lazy loop ends at the sentinel; lua_pop(L, 1); luaL_openlibs returns.
Return ==
  /\ pc = "ploop"
  /\ lj_lib_preload(cfg)[lib].func = NULL
  /\ stack' = lua_pop(stack, 1)
  /\ pc' = "done"
  /\ UNCHANGED <<cfg, lib, globals, preload, calls, nret, written, entry, atlazy, recall, err>>

Next ==
  \/ Call
  \/ LoadPushFunc
  \/ LoadPushName
  \/ LoadCallEnter
  \/ LoadCallReturn
  \/ LoadCallRaise
  \/ FindPreload
  \/ FindPreloadRaise
  \/ PreloadPushFunc
  \/ PreloadSetField
  \/ Return

Spec == Init /\ [][Next]_vars

TypeOK ==
  /\ cfg \in Configs
  /\ pc \in {"idle", "loop", "pushed_f", "pushed_s", "in_call", "ploop", "ppushed",
             "done", "raised"}
  /\ lib \in 1..Len(IF pc \in {"ploop", "ppushed", "done"}
                      THEN lj_lib_preload(cfg) ELSE lj_lib_load(cfg))
  /\ err \in {"none", "module", "preload", "index"}

\* ------------------------------------------------------------ properties
\* The element each switch guards in lj_lib_load.
ModuleOfSwitch(sw) ==
  CASE sw = "WB_DISABLE_LIB_BASE"    -> Reg("",              "luaopen_base")
    [] sw = "WB_DISABLE_LIB_PACKAGE" -> Reg(LUA_LOADLIBNAME, "luaopen_package")
    [] sw = "WB_DISABLE_LIB_TABLE"   -> Reg(LUA_TABLIBNAME,  "luaopen_table")
    [] sw = "WB_DISABLE_LIB_IO"      -> Reg(LUA_IOLIBNAME,   "luaopen_io")
    [] sw = "WB_DISABLE_LIB_OS"      -> Reg(LUA_OSLIBNAME,   "luaopen_os")
    [] sw = "WB_DISABLE_LIB_STRING"  -> Reg(LUA_STRLIBNAME,  "luaopen_string")
    [] sw = "WB_DISABLE_LIB_MATH"    -> Reg(LUA_MATHLIBNAME, "luaopen_math")
    [] sw = "WB_DISABLE_LIB_DEBUG"   -> Reg(LUA_DBLIBNAME,   "luaopen_debug")
    [] sw = "WB_DISABLE_LIB_BIT"     -> Reg(LUA_BITLIBNAME,  "luaopen_bit")
    [] sw = "WB_DISABLE_LIB_JIT"     -> Reg(LUA_JITLIBNAME,  "luaopen_jit")

\* The invocations one luaL_openlibs call is to make, in order.
ExpectedCalls(c) ==
  LET e == EagerSet(c) IN
    [k \in 1..Len(e) |->
       [func |-> e[k].func, arg |-> e[k].name, nargs |-> 1, nresults |-> 0]]

\* The stores one luaL_openlibs call is to make, in order.
ExpectedStores(c) ==
  LET z == LazySet(c) IN
    [k \in 1..Len(z) |-> [key |-> z[k].name, val |-> CFunc(z[k].func)]]

GlobalOf(name) == IF name = "" THEN "_G" ELSE name
InLazyPhase    == pc \in {"ploop", "ppushed", "done"}
Without(f, ks) == [k \in (DOMAIN f) \ ks |-> f[k]]

\* C1: within one luaL_openlibs call the lua_call invocations are, at every
\* moment, a prefix of the eager table in its declared order, each with one
\* argument equal to the element's name ("" for base) and zero results, no
\* entry point is invoked twice, at most one invocation is outstanding (the
\* next starts only after the previous returned), and once the eager loop is
\* over every element has been invoked.
C1_EagerCallsInOrder ==
  LET want == ExpectedCalls(cfg) IN
    /\ Len(calls) <= Len(want)
    /\ calls = SubSeq(want, 1, Len(calls))
    /\ \A i, j \in 1..Len(calls) : calls[i].func = calls[j].func => i = j
    /\ \A k \in 1..Len(calls) : calls[k].nargs = 1 /\ calls[k].nresults = 0
    /\ nret = (IF pc = "in_call" \/ (pc = "raised" /\ err = "module")
                 THEN Len(calls) - 1 ELSE Len(calls))
    /\ InLazyPhase => calls = want /\ nret = Len(calls)

C1_Witness ==
  /\ pc = "done"
  /\ Len(calls) >= 3
  /\ calls[1].arg = ""
  /\ calls[3].arg = LUA_TABLIBNAME

\* C2: when luaL_openlibs has returned, every eager element's name is bound in
\* the globals (base binds its own symbols), and every lazy element's name is
\* a key of _PRELOAD holding its entry point and is not bound in the globals.
C2_EagerGlobalLazyPending ==
  pc = "done" =>
    /\ \A r \in Range(EagerSet(cfg)) : GlobalOf(r.name) \in globals
    /\ \A r \in Range(LazySet(cfg)) :
         /\ r.name \in DOMAIN preload.ent
         /\ preload.ent[r.name] = CFunc(r.func)
         /\ r.name \notin globals

C2_Witness ==
  /\ pc = "done"
  /\ cfg.LJ_HASFFI
  /\ Len(EagerSet(cfg)) >= 2
  /\ LUA_FFILIBNAME \in DOMAIN preload.ent
  /\ LUA_MATHLIBNAME \in globals

\* C3: no lua_call of luaL_openlibs ever invokes an entry point of the lazy
\* table; every store into _PRELOAD made by luaL_openlibs puts a lazy
\* element's entry point under that element's name; and the lazy phase is
\* entered, and any store made, only after every eager entry point returned.
C3_LazyOnlyRegistered ==
  /\ \A k \in 1..Len(calls) :
       calls[k].func \notin { r.func : r \in Range(LazySet(cfg)) }
  /\ \A k \in 1..Len(written) :
       \E r \in Range(LazySet(cfg)) :
         written[k] = [key |-> r.name, val |-> CFunc(r.func)]
  /\ (written # <<>> \/ InLazyPhase) =>
       nret = Len(EagerSet(cfg)) /\ Len(calls) = nret

C3_Witness ==
  /\ pc = "done"
  /\ Len(written) = 1
  /\ Len(calls) >= 2

C4_AtFailure ==
  (pc = "raised" /\ err = "module") =>
    LET k == Len(calls) IN
      /\ k >= 1
      /\ k = lib
      /\ nret = k - 1
      /\ calls[k].func = EagerSet(cfg)[k].func
      /\ entry.globals \subseteq globals
      /\ \A j \in 1..(k - 1) : GlobalOf(EagerSet(cfg)[j].name) \in globals
      /\ written = <<>>
      /\ preload = entry.preload

\* C4: when the k-th eager entry point raises, luaL_openlibs is left at once:
\* exactly k invocations were made, the bindings of elements 1..k-1 (and those
\* present on entry) are still in the globals, nothing was stored into
\* _PRELOAD, which is as on entry, and luaL_openlibs takes no further step
\* (no later entry point, no retry, no cleanup).
C4_FailurePropagates == []C4_AtFailure /\ [][pc # "raised"]_vars

C4_Witness ==
  /\ pc = "raised"
  /\ err = "module"
  /\ Len(calls) >= 3
  /\ LUA_LOADLIBNAME \in globals
  /\ cfg.LJ_HASFFI

\* C5: for the build configuration in force and every switch not yet defined,
\* defining that switch as well yields the same eager table minus exactly the
\* element the switch guards (order of the rest kept) and the same lazy table,
\* neither of which names the guarded module; and for every switch that is
\* defined, its module is in neither table and luaL_openlibs never invokes its
\* entry point nor stores its name.
C5_SwitchRemovesModule ==
  LET eager == EagerSet(cfg)
      lazy  == LazySet(cfg)
  IN
  /\ \A sw \in Switches \ cfg.defined :
       LET c2 == [cfg EXCEPT !.defined = @ \cup {sw}]
           m  == ModuleOfSwitch(sw)
           e2 == EagerSet(c2)
           z2 == LazySet(c2)
           Keep(r) == r # m
       IN /\ e2 = SelectSeq(eager, Keep)
          /\ z2 = lazy
          /\ \A r \in Range(e2) \cup Range(z2) : r.name # m.name /\ r.func # m.func
  /\ \A sw \in cfg.defined :
       LET m == ModuleOfSwitch(sw) IN
         /\ m \notin Range(eager) \cup Range(lazy)
         /\ \A k \in 1..Len(calls) : calls[k].func # m.func
         /\ \A k \in 1..Len(written) : written[k].key # m.name

C5_Witness ==
  /\ pc = "done"
  /\ cfg.defined = {"WB_DISABLE_LIB_IO", "WB_DISABLE_LIB_OS"}
  /\ Len(calls) = 8
  /\ LUA_STRLIBNAME \in globals
  /\ LUA_IOLIBNAME \notin globals

\* C6: for the build configuration in force no name and no entry point occurs
\* in both the eager and the lazy table, no name occurs twice in either, and
\* accordingly no key luaL_openlibs stores into _PRELOAD is a name it passed to
\* an eager entry point.
C6_SetsDisjoint ==
  /\ Names(lj_lib_load(cfg)) \cap Names(lj_lib_preload(cfg)) = {}
  /\ { r.func : r \in Range(EagerSet(cfg)) }
       \cap { r.func : r \in Range(LazySet(cfg)) } = {}
  /\ Cardinality(Names(lj_lib_load(cfg))) = Len(EagerSet(cfg))
  /\ Cardinality(Names(lj_lib_preload(cfg))) = Len(LazySet(cfg))
  /\ \A i \in 1..Len(calls), j \in 1..Len(written) : calls[i].arg # written[j].key

C6_Witness ==
  /\ pc = "done"
  /\ cfg.defined = {}
  /\ cfg.LJ_HASFFI
  /\ Len(calls) = 10
  /\ Len(written) = 1

C8_BaseFirst ==
  "WB_DISABLE_LIB_BASE" \notin cfg.defined =>
    /\ lj_lib_load(cfg)[1] = Reg("", "luaopen_base")
    /\ calls # <<>> => calls[1] = [func |-> "luaopen_base", arg |-> "",
                                   nargs |-> 1, nresults |-> 0]
    /\ \A k \in 2..Len(calls) : calls[k].arg # "" /\ calls[k].func # "luaopen_base"
    /\ (globals # entry.globals) => "_G" \in globals

C8_Witness ==
  /\ "WB_DISABLE_LIB_BASE" \notin cfg.defined
  /\ "WB_DISABLE_LIB_PACKAGE" \notin cfg.defined
  /\ pc = "in_call"
  /\ Len(calls) = 2
  /\ "_G" \in globals
  /\ ~recall

\* C9: relative to the stack on entry, luaL_openlibs holds nothing at the head
\* of either loop's eager iteration, the function after the first push, the
\* function and its name until lua_call returns, only the _PRELOAD table
\* between registrations, the table and one function during a registration,
\* and nothing once it has returned.
C9_StackBalanced ==
  LET base == entry.stack
      h    == Len(base)
  IN
  /\ pc \in {"loop", "done"} => stack = base
  /\ pc = "pushed_f" =>
       /\ Len(stack) = h + 1
       /\ SubSeq(stack, 1, h) = base
       /\ Top(stack) = CFunc(lj_lib_load(cfg)[lib].func)
  /\ pc \in {"pushed_s", "in_call"} =>
       /\ Len(stack) = h + 2
       /\ SubSeq(stack, 1, h) = base
       /\ Second(stack).tag = "cfunction"
       /\ Top(stack).tag = "string"
  /\ pc = "ploop" => stack = Append(base, Tab(preload.id))
  /\ pc = "ppushed" =>
       stack = base \o << Tab(preload.id), CFunc(lj_lib_preload(cfg)[lib].func) >>

C9_Witness ==
  /\ pc = "done"
  /\ Len(calls) >= 2
  /\ Len(written) = 1
  /\ stack = <<HostVal>>

\* C10: when _PRELOAD exists as luaL_openlibs reaches luaL_findtable, the same
\* table stays in the registry, every entry under a key that is not a lazy
\* name is kept as it was, luaL_openlibs stores under lazy names only, and a
\* call that follows a completed call returns with _PRELOAD as it found it.
C10_PreloadReused ==
  /\ (InLazyPhase /\ atlazy.exists) =>
       LET lazynames == Names(lj_lib_preload(cfg)) IN
       /\ preload.exists
       /\ preload.id = atlazy.id
       /\ preload.hint = atlazy.hint
       /\ \A k \in (DOMAIN atlazy.ent) \ lazynames :
            k \in DOMAIN preload.ent /\ preload.ent[k] = atlazy.ent[k]
       /\ \A k \in 1..Len(written) : written[k].key \in lazynames
  /\ (pc = "done" /\ recall) => preload = entry.preload

C10_Witness ==
  /\ pc = "done"
  /\ recall
  /\ cfg.LJ_HASFFI
  /\ Len(written) = 1
  /\ preload.ent["host.unit"] = CFunc("host_loader")
  /\ preload.ent[LUA_FFILIBNAME] = CFunc("luaopen_ffi")
====
